---- MODULE Spec2Model ----
(***************************************************************************)
(* Model of generate_creatures.py: the sprite renderer draw_creature, the  *)
(* CREATURES catalogue and the generate_all driver.                        *)
(*                                                                         *)
(* An image is modelled by the sequence of ImageDraw calls made on it, in  *)
(* call order; every call carries the name of the element it belongs to,   *)
(* taken from the section comments of draw_creature.                       *)
(***************************************************************************)
EXTENDS Integers, Sequences, FiniteSets, TLC

(* ---------------------------------------------------------------------- *)
(* Bounds of the model                                                     *)
(* ---------------------------------------------------------------------- *)

\* number of sampled outcomes of the unseeded random generator
NStreams == 3

\* largest spine count of the enumerated parameter records
MaxSpines == 5

\* number of times the script is executed one after the other
MaxRuns == 2

(* ---------------------------------------------------------------------- *)
(* Python helpers                                                          *)
(* ---------------------------------------------------------------------- *)

Min(a, b) == IF a <= b THEN a ELSE b

Max(a, b) == IF a >= b THEN a ELSE b

\* Python's None; like None the empty tuple is falsy for `or`
None == <<>>

\* dict.get(key, default)
Get(params, key, default) == IF key \in DOMAIN params THEN params[key] ELSE default

\* random.randint(a, b): both ends included; raw is the generator's draw
randint(a, b, raw) == a + (raw % (b - a + 1))

\* the twelve draws one outcome s of the generator hands to a call
RandomStream(s) ==
    [j \in 1..12 |-> CASE s = 1 -> 0
                       [] s = 2 -> 1475
                       [] OTHER -> s * (j + 17) * 29]

(* ---------------------------------------------------------------------- *)
(* draw_creature                                                           *)
(* ---------------------------------------------------------------------- *)

Shape(op, part, xy, fill) == [op |-> op, part |-> part, xy |-> xy, fill |-> fill]

\* int(c * 0.7 + 80): int() drops the fraction, and for every c in 0..255 the
\* float result has the integer part of the exact (7c + 800) / 10
TruncUniqueChannel(c) == (7 * c + 800) \div 10

\* without the cap at 255
UnclampedUniqueChannel(c) == TruncUniqueChannel(c)

\* rounding to the nearest integer instead of dropping the fraction
RoundedUniqueChannel(c) == Min(255, (7 * c + 800 + 5) \div 10)

\* min(255, int(c * 0.7 + 80))
UniqueChannel(c) == Min(255, TruncUniqueChannel(c))

\* (spines + 2) % 5
UniqueSpines(spines) == (spines + 2) % 5

\* the crest inverted whatever the record's flag says
CrestAlwaysInverted(params, crest) == ~crest

\* not crest if params.get('allow_crest_unique', True) else crest
UniqueCrest(params, crest) ==
    IF Get(params, "allow_crest_unique", TRUE) THEN ~crest ELSE crest

\* the local variables of draw_creature when drawing starts
Locals(params, unique) ==
    LET colour     == Get(params, "color", <<120, 200, 120>>)
        tail_shape == Get(params, "tail", "normal")
        horns      == Get(params, "horns", FALSE)
        horns_colour == Get(params, "horns_color", None)
        spines     == Get(params, "spines", 0)
        crest      == Get(params, "crest", FALSE)
        spots      == Get(params, "spots", FALSE)
        fins       == Get(params, "fins", FALSE)
    IN  IF unique
        THEN [colour |-> [ch \in DOMAIN colour |-> UniqueChannel(colour[ch])],
              tail_shape |-> tail_shape,
              horns |-> ~horns,
              horns_colour |-> horns_colour,
              spines |-> UniqueSpines(spines),
              crest |-> UniqueCrest(params, crest),
              spots |-> ~spots,
              fins |-> ~fins]
        ELSE [colour |-> colour,
              tail_shape |-> tail_shape,
              horns |-> horns,
              horns_colour |-> horns_colour,
              spines |-> spines,
              crest |-> crest,
              spots |-> spots,
              fins |-> fins]

DrawBody(colour) ==
    << Shape("ellipse", "body", <<20, 40, 80, 90>>, colour) >>

DrawHead(colour) ==
    << Shape("ellipse", "head", <<40, 20, 80, 60>>, colour) >>

DrawLegs(colour) ==
    << Shape("rectangle", "leg", <<30, 80, 40, 95>>, colour),
       Shape("rectangle", "leg", <<55, 80, 65, 95>>, colour) >>

\* the 'normal' tail whatever the tail field says
NormalTailAlways(tail_shape, colour) ==
    << Shape("polygon", "tail", << <<20, 70>>, <<10, 65>>, <<20, 60>> >>, colour) >>

DrawTail(tail_shape, colour) ==
    IF tail_shape = "leaf"
    THEN << Shape("polygon", "tail",
                  << <<20, 70>>, <<10, 50>>, <<20, 55>>, <<15, 65>> >>, colour),
            Shape("line", "vein", << <<15, 55>>, <<15, 65>> >>, <<0, 100, 0>>) >>
    ELSE IF tail_shape = "long"
    THEN << Shape("polygon", "tail", << <<20, 75>>, <<5, 65>>, <<20, 55>> >>, colour) >>
    ELSE IF tail_shape = "fin"
    THEN << Shape("polygon", "tail", << <<20, 70>>, <<5, 60>>, <<20, 50>> >>, colour),
            Shape("line", "vein", << <<12, 58>>, <<12, 65>> >>, <<0, 150, 200>>) >>
    ELSE << Shape("polygon", "tail", << <<20, 70>>, <<10, 65>>, <<20, 60>> >>, colour) >>

Lighten40(c) == Min(255, c + 40)

Darken30(c) == Max(0, c - 30)

Darken40(c) == Max(0, c - 40)

Lighten60(c) == Min(255, c + 60)

\* horns always in the derived colour
HornsIgnoreExplicitColour(horns, horns_colour, colour) ==
    IF horns
    THEN LET hc == [ch \in DOMAIN colour |-> Lighten40(colour[ch])]
         IN << Shape("polygon", "horn", << <<50, 12>>, <<54, 25>>, <<46, 25>> >>, hc),
               Shape("polygon", "horn", << <<60, 12>>, <<64, 25>>, <<56, 25>> >>, hc) >>
    ELSE << >>

DrawHorns(horns, horns_colour, colour) ==
    IF horns
    THEN LET hc == IF horns_colour # None THEN horns_colour
                   ELSE [ch \in DOMAIN colour |-> Lighten40(colour[ch])]
         IN << Shape("polygon", "horn", << <<50, 12>>, <<54, 25>>, <<46, 25>> >>, hc),
               Shape("polygon", "horn", << <<60, 12>>, <<64, 25>>, <<56, 25>> >>, hc) >>
    ELSE << >>

\* for i in range(spines)
DrawSpines(spines, colour) ==
    [k \in 1..spines |->
        LET i == k - 1
            x == 30 + i * 10
        IN  Shape("polygon", "spine",
                  << <<x, 38 - i * 2>>, <<x + 5, 28 - i * 2>>, <<x + 10, 38 - i * 2>> >>,
                  [ch \in DOMAIN colour |-> Darken30(colour[ch])])]

\* int(12 * math.cos(math.radians(i * 60))), i = 0..5: the float product for
\* 120 degrees is -5.999999999999997, which int() truncates to -5
PetalDx == <<12, 6, -5, -12, -6, 6>>

\* int(12 * math.sin(math.radians(i * 60))), i = 0..5
PetalDy == <<0, 10, 10, 0, -10, -10>>

DrawCrest(crest, unique) ==
    IF crest
    THEN [k \in 1..6 |->
            LET cx == 60
                cy == 40
                dx == PetalDx[k]
                dy == PetalDy[k]
                petal_col == IF ~unique THEN <<255, 200, 0>> ELSE <<255, 0, 200>>
            IN  Shape("ellipse", "petal",
                      <<cx + dx - 4, cy + dy - 4, cx + dx + 4, cy + dy + 4>>, petal_col)]
    ELSE << >>

\* spots drawn whatever the flag says
SpotsAlwaysDrawn(spots, colour, rnd) ==
    [k \in 1..6 |->
        LET sx == randint(30, 70, rnd[2 * k - 1])
            sy == randint(50, 85, rnd[2 * k])
        IN  Shape("ellipse", "spot", <<sx - 2, sy - 2, sx + 2, sy + 2>>,
                  [ch \in DOMAIN colour |-> Darken40(colour[ch])])]

\* rnd: the draws of the random generator, consumed in call order
DrawSpots(spots, colour, rnd) ==
    IF spots
    THEN [k \in 1..6 |->
            LET sx == randint(30, 70, rnd[2 * k - 1])
                sy == randint(50, 85, rnd[2 * k])
                spot_col == [ch \in DOMAIN colour |-> Darken40(colour[ch])]
            IN  Shape("ellipse", "spot", <<sx - 2, sy - 2, sx + 2, sy + 2>>, spot_col)]
    ELSE << >>

\* how many random numbers the spots section draws
RandomDraws(spots) == IF spots THEN 12 ELSE 0

DrawFins(fins, colour) ==
    IF fins
    THEN LET fin_col == [ch \in DOMAIN colour |-> Lighten60(colour[ch])]
         IN [k \in 1..3 |->
                LET i == k - 1
                    fx == 35 + i * 15
                IN  Shape("polygon", "fin",
                          << <<fx, 35 - i * 3>>, <<fx + 7, 25 - i * 3>>,
                             <<fx + 14, 35 - i * 3>> >>, fin_col)]
    ELSE << >>

DrawEyes ==
    LET eye_x == 63
        eye_y == 33
    IN << Shape("ellipse", "eye", <<eye_x - 10, eye_y - 5, eye_x - 4, eye_y + 1>>, <<255, 255, 255>>),
          Shape("ellipse", "eye", <<eye_x - 8, eye_y - 3, eye_x - 6, eye_y - 1>>, <<0, 0, 0>>),
          Shape("ellipse", "eye", <<eye_x - 24, eye_y - 5, eye_x - 18, eye_y + 1>>, <<255, 255, 255>>),
          Shape("ellipse", "eye", <<eye_x - 22, eye_y - 3, eye_x - 20, eye_y - 1>>, <<0, 0, 0>>) >>

\* the fins drawn before the spots
SpotsOverFins(l, unique, rnd) ==
    DrawBody(l.colour) \o DrawHead(l.colour) \o DrawLegs(l.colour)
      \o DrawTail(l.tail_shape, l.colour)
      \o DrawHorns(l.horns, l.horns_colour, l.colour)
      \o DrawSpines(l.spines, l.colour)
      \o DrawCrest(l.crest, unique)
      \o DrawFins(l.fins, l.colour)
      \o DrawSpots(l.spots, l.colour, rnd)
      \o DrawEyes

\* the ImageDraw calls of draw_creature, in the order it makes them
DrawOps(l, unique, rnd) ==
    DrawBody(l.colour) \o DrawHead(l.colour) \o DrawLegs(l.colour)
      \o DrawTail(l.tail_shape, l.colour)
      \o DrawHorns(l.horns, l.horns_colour, l.colour)
      \o DrawSpines(l.spines, l.colour)
      \o DrawCrest(l.crest, unique)
      \o DrawSpots(l.spots, l.colour, rnd)
      \o DrawFins(l.fins, l.colour)
      \o DrawEyes

\* draw_creature(params, unique): the returned image, with the values the
\* call drew with and the number of random draws it made
draw_creature(params, unique, rnd) ==
    LET l == Locals(params, unique)
    IN  [unique |-> unique,
         locals |-> l,
         nrandom |-> RandomDraws(l.spots),
         img |-> [mode |-> "RGBA", size |-> <<100, 100>>, ops |-> DrawOps(l, unique, rnd)]]

(* ---------------------------------------------------------------------- *)
(* The catalogue                                                           *)
(* ---------------------------------------------------------------------- *)

CREATURES ==
    <<
       <<"verdant_leaflon", [color |-> <<76, 174, 79>>, tail |-> "leaf", horns |-> FALSE, spines |-> 1, crest |-> FALSE, spots |-> FALSE, fins |-> FALSE]>>,
       <<"verdant_barkhorn", [color |-> <<143, 92, 49>>, tail |-> "normal", horns |-> TRUE, horns_color |-> <<189, 135, 70>>, spines |-> 0, crest |-> FALSE, spots |-> FALSE, fins |-> FALSE]>>,
       <<"verdant_dewhopper", [color |-> <<119, 178, 187>>, tail |-> "long", horns |-> FALSE, spines |-> 0, crest |-> FALSE, spots |-> TRUE, fins |-> TRUE]>>,
       <<"verdant_suncollar", [color |-> <<208, 131, 45>>, tail |-> "normal", horns |-> FALSE, spines |-> 0, crest |-> TRUE, spots |-> FALSE, fins |-> FALSE, allow_crest_unique |-> FALSE]>>,
       <<"verdant_sproutling", [color |-> <<102, 185, 90>>, tail |-> "leaf", horns |-> FALSE, spines |-> 2, crest |-> FALSE, spots |-> FALSE, fins |-> FALSE]>>,
       <<"verdant_gloomdrake", [color |-> <<91, 64, 115>>, tail |-> "long", horns |-> TRUE, horns_color |-> <<111, 84, 135>>, spines |-> 3, crest |-> FALSE, spots |-> FALSE, fins |-> FALSE]>>,
       <<"verdant_shadowpouncer", [color |-> <<60, 60, 70>>, tail |-> "long", horns |-> FALSE, spines |-> 2, crest |-> FALSE, spots |-> FALSE, fins |-> FALSE]>>,
       <<"verdant_moonfen", [color |-> <<75, 123, 199>>, tail |-> "fin", horns |-> FALSE, spines |-> 0, crest |-> FALSE, spots |-> TRUE, fins |-> TRUE]>>,
       <<"verdant_shadehopper", [color |-> <<63, 97, 56>>, tail |-> "long", horns |-> FALSE, spines |-> 0, crest |-> FALSE, spots |-> TRUE, fins |-> FALSE]>>,
       <<"verdant_starbit", [color |-> <<223, 210, 60>>, tail |-> "fin", horns |-> FALSE, spines |-> 1, crest |-> FALSE, spots |-> FALSE, fins |-> TRUE]>>,
       <<"desert_sunscale", [color |-> <<230, 170, 69>>, tail |-> "normal", horns |-> TRUE, horns_color |-> <<255, 213, 96>>, spines |-> 3, crest |-> FALSE, spots |-> FALSE, fins |-> FALSE]>>,
       <<"desert_sandrunner", [color |-> <<199, 148, 80>>, tail |-> "long", horns |-> FALSE, spines |-> 1, crest |-> FALSE, spots |-> FALSE, fins |-> FALSE]>>,
       <<"desert_cactusaur", [color |-> <<187, 167, 57>>, tail |-> "leaf", horns |-> TRUE, horns_color |-> <<204, 190, 92>>, spines |-> 2, crest |-> FALSE, spots |-> FALSE, fins |-> FALSE]>>,
       <<"desert_mirageback", [color |-> <<207, 152, 97>>, tail |-> "long", horns |-> FALSE, spines |-> 0, crest |-> TRUE, spots |-> FALSE, fins |-> FALSE]>>,
       <<"desert_dustwing", [color |-> <<215, 180, 100>>, tail |-> "fin", horns |-> FALSE, spines |-> 0, crest |-> FALSE, spots |-> FALSE, fins |-> TRUE]>>,
       <<"desert_dunehowl", [color |-> <<120, 85, 60>>, tail |-> "long", horns |-> TRUE, horns_color |-> <<145, 105, 75>>, spines |-> 1, crest |-> FALSE, spots |-> FALSE, fins |-> FALSE]>>,
       <<"desert_nightcrawler", [color |-> <<85, 74, 65>>, tail |-> "long", horns |-> FALSE, spines |-> 3, crest |-> FALSE, spots |-> FALSE, fins |-> FALSE]>>,
       <<"desert_mirageglider", [color |-> <<139, 116, 102>>, tail |-> "fin", horns |-> TRUE, horns_color |-> <<169, 146, 132>>, spines |-> 0, crest |-> FALSE, spots |-> FALSE, fins |-> TRUE]>>,
       <<"desert_sandshiver", [color |-> <<155, 121, 93>>, tail |-> "long", horns |-> FALSE, spines |-> 4, crest |-> FALSE, spots |-> FALSE, fins |-> FALSE]>>,
       <<"desert_aridclaw", [color |-> <<133, 109, 90>>, tail |-> "normal", horns |-> TRUE, horns_color |-> <<163, 139, 120>>, spines |-> 1, crest |-> FALSE, spots |-> FALSE, fins |-> FALSE]>>,
       <<"ocean_seapup", [color |-> <<79, 169, 222>>, tail |-> "fin", horns |-> FALSE, spines |-> 0, crest |-> FALSE, spots |-> FALSE, fins |-> TRUE]>>,
       <<"ocean_coralhorn", [color |-> <<85, 131, 191>>, tail |-> "normal", horns |-> TRUE, horns_color |-> <<170, 198, 240>>, spines |-> 2, crest |-> FALSE, spots |-> FALSE, fins |-> FALSE]>>,
       <<"ocean_tideback", [color |-> <<92, 183, 201>>, tail |-> "fin", horns |-> FALSE, spines |-> 0, crest |-> FALSE, spots |-> FALSE, fins |-> TRUE]>>,
       <<"ocean_splashfin", [color |-> <<104, 167, 216>>, tail |-> "fin", horns |-> FALSE, spines |-> 1, crest |-> FALSE, spots |-> FALSE, fins |-> TRUE]>>,
       <<"ocean_wavefoot", [color |-> <<66, 138, 190>>, tail |-> "fin", horns |-> FALSE, spines |-> 0, crest |-> FALSE, spots |-> TRUE, fins |-> TRUE]>>,
       <<"ocean_deepglow", [color |-> <<40, 85, 138>>, tail |-> "fin", horns |-> FALSE, spines |-> 0, crest |-> FALSE, spots |-> TRUE, fins |-> TRUE]>>,
       <<"ocean_moonray", [color |-> <<58, 104, 161>>, tail |-> "fin", horns |-> FALSE, spines |-> 1, crest |-> FALSE, spots |-> TRUE, fins |-> TRUE]>>,
       <<"ocean_abyssclaw", [color |-> <<50, 84, 123>>, tail |-> "normal", horns |-> TRUE, horns_color |-> <<80, 114, 153>>, spines |-> 2, crest |-> FALSE, spots |-> FALSE, fins |-> FALSE]>>,
       <<"ocean_mistwing", [color |-> <<76, 121, 182>>, tail |-> "fin", horns |-> FALSE, spines |-> 0, crest |-> FALSE, spots |-> FALSE, fins |-> TRUE]>>,
       <<"ocean_whirlpooler", [color |-> <<60, 94, 140>>, tail |-> "fin", horns |-> FALSE, spines |-> 3, crest |-> FALSE, spots |-> FALSE, fins |-> TRUE]>>,
       <<"mountain_iceback", [color |-> <<146, 202, 221>>, tail |-> "normal", horns |-> TRUE, horns_color |-> <<176, 232, 251>>, spines |-> 3, crest |-> FALSE, spots |-> FALSE, fins |-> FALSE]>>,
       <<"mountain_snowtail", [color |-> <<192, 223, 233>>, tail |-> "long", horns |-> FALSE, spines |-> 1, crest |-> FALSE, spots |-> FALSE, fins |-> FALSE]>>,
       <<"mountain_frosthorn", [color |-> <<163, 198, 222>>, tail |-> "normal", horns |-> TRUE, horns_color |-> <<213, 243, 255>>, spines |-> 1, crest |-> FALSE, spots |-> FALSE, fins |-> FALSE]>>,
       <<"mountain_glacierpaw", [color |-> <<179, 210, 220>>, tail |-> "normal", horns |-> FALSE, spines |-> 0, crest |-> TRUE, spots |-> FALSE, fins |-> FALSE]>>,
       <<"mountain_chilldrake", [color |-> <<134, 187, 210>>, tail |-> "long", horns |-> TRUE, horns_color |-> <<164, 217, 240>>, spines |-> 2, crest |-> FALSE, spots |-> FALSE, fins |-> FALSE]>>,
       <<"mountain_iciclex", [color |-> <<103, 143, 170>>, tail |-> "long", horns |-> FALSE, spines |-> 3, crest |-> FALSE, spots |-> FALSE, fins |-> FALSE]>>,
       <<"mountain_nightfrost", [color |-> <<90, 122, 149>>, tail |-> "long", horns |-> TRUE, horns_color |-> <<120, 152, 179>>, spines |-> 2, crest |-> FALSE, spots |-> FALSE, fins |-> FALSE]>>,
       <<"mountain_winterstalk", [color |-> <<113, 153, 180>>, tail |-> "normal", horns |-> FALSE, spines |-> 4, crest |-> FALSE, spots |-> FALSE, fins |-> FALSE]>>,
       <<"mountain_snowmantle", [color |-> <<167, 214, 236>>, tail |-> "normal", horns |-> FALSE, spines |-> 1, crest |-> TRUE, spots |-> FALSE, fins |-> FALSE]>>,
       <<"mountain_iceblink", [color |-> <<120, 164, 198>>, tail |-> "fin", horns |-> TRUE, horns_color |-> <<150, 194, 228>>, spines |-> 2, crest |-> FALSE, spots |-> FALSE, fins |-> TRUE]>>,
       <<"swamp_mudfin", [color |-> <<102, 125, 77>>, tail |-> "fin", horns |-> FALSE, spines |-> 0, crest |-> FALSE, spots |-> TRUE, fins |-> TRUE]>>,
       <<"swamp_bogmaw", [color |-> <<89, 113, 65>>, tail |-> "long", horns |-> TRUE, horns_color |-> <<119, 143, 95>>, spines |-> 2, crest |-> FALSE, spots |-> FALSE, fins |-> FALSE]>>,
       <<"swamp_marshclaw", [color |-> <<79, 103, 61>>, tail |-> "long", horns |-> FALSE, spines |-> 3, crest |-> FALSE, spots |-> FALSE, fins |-> FALSE]>>,
       <<"swamp_fenrunner", [color |-> <<96, 129, 82>>, tail |-> "long", horns |-> FALSE, spines |-> 1, crest |-> FALSE, spots |-> FALSE, fins |-> FALSE]>>,
       <<"swamp_vinecrest", [color |-> <<83, 116, 70>>, tail |-> "leaf", horns |-> FALSE, spines |-> 0, crest |-> TRUE, spots |-> FALSE, fins |-> FALSE]>>,
       <<"swamp_mireglow", [color |-> <<70, 96, 58>>, tail |-> "fin", horns |-> FALSE, spines |-> 0, crest |-> FALSE, spots |-> TRUE, fins |-> TRUE]>>,
       <<"swamp_sludgeback", [color |-> <<60, 80, 50>>, tail |-> "long", horns |-> TRUE, horns_color |-> <<90, 110, 70>>, spines |-> 2, crest |-> FALSE, spots |-> FALSE, fins |-> FALSE]>>,
       <<"swamp_fogwhisp", [color |-> <<72, 98, 64>>, tail |-> "fin", horns |-> FALSE, spines |-> 1, crest |-> FALSE, spots |-> TRUE, fins |-> TRUE]>>,
       <<"swamp_croakshade", [color |-> <<68, 92, 58>>, tail |-> "long", horns |-> FALSE, spines |-> 2, crest |-> FALSE, spots |-> FALSE, fins |-> FALSE]>>,
       <<"swamp_nightvine", [color |-> <<65, 90, 55>>, tail |-> "leaf", horns |-> TRUE, horns_color |-> <<95, 120, 85>>, spines |-> 1, crest |-> FALSE, spots |-> FALSE, fins |-> FALSE]>>
    >>

\* the catalogue entries' names and parameter records
NameOf(k) == CREATURES[k][1]

ParamsOf(k) == CREATURES[k][2]

(* ---------------------------------------------------------------------- *)
(* Directory setup and paths                                               *)
(* ---------------------------------------------------------------------- *)

\* os.path.join
join(a, b) == a \o "/" \o b

\* the directory of the script
BASE_DIR == "."

ASSETS_DIR == join(join(BASE_DIR, "assets"), "creatures")

BASE_OUTPUT == join(ASSETS_DIR, "base")

UNIQUE_OUTPUT == join(ASSETS_DIR, "unique")

\* os.path.join(BASE_OUTPUT, f"{name}_base.png")
base_path(name) == join(BASE_OUTPUT, name \o "_base.png")

\* the unique file put into the base directory
UniquePathInBaseDir(name) == join(BASE_OUTPUT, name \o "_unique.png")

\* os.path.join(UNIQUE_OUTPUT, f"{name}_unique.png")
unique_path(name) == join(UNIQUE_OUTPUT, name \o "_unique.png")

(* ---------------------------------------------------------------------- *)
(* State                                                                   *)
(* ---------------------------------------------------------------------- *)

VARIABLES
    pc,          \* where the script stands
    run,         \* which execution of the script this is
    i,           \* the loop of generate_all: index of the current entry
    base_img,    \* generate_all's local base_img
    unique_img,  \* generate_all's local unique_img
    dirs,        \* the directories that exist
    files,       \* the paths of the files that exist
    written,     \* the paths saved by this execution, in order
    printed,     \* the lines printed by this execution
    raisedAt,    \* the step of this execution that raised, or None
    completed,   \* how many executions ran to the end of generate_all
    params,      \* renderer calls: the parameter record under study
    calls        \* renderer calls: the results of the calls made on it

vars == <<pc, run, i, base_img, unique_img, dirs, files, written, printed,
          raisedAt, completed, params, calls>>

driverVars == <<pc, run, i, base_img, unique_img, dirs, files, written, printed,
                raisedAt, completed>>

Range(s) == {s[j] : j \in DOMAIN s}

(* ---------------------------------------------------------------------- *)
(* The script: directory setup, then generate_all                          *)
(* ---------------------------------------------------------------------- *)

Init ==
    /\ pc = "makedirs"
    /\ run = 1
    /\ i = 0
    /\ base_img = None
    /\ unique_img = None
    /\ dirs \in SUBSET {BASE_OUTPUT, UNIQUE_OUTPUT}
    /\ files = {}
    /\ written = <<>>
    /\ printed = <<>>
    /\ raisedAt = None
    /\ completed = 0
    /\ params = ParamsOf(1)
    /\ calls = <<>>

\* os.makedirs(BASE_OUTPUT, exist_ok=True); os.makedirs(UNIQUE_OUTPUT, exist_ok=True)
\* and the call of generate_all, whose loop takes the first entry
MakeDirs ==
    /\ pc = "makedirs"
    /\ dirs' = dirs \cup {BASE_OUTPUT, UNIQUE_OUTPUT}
    /\ i' = 1
    /\ pc' = "draw_base"
    /\ UNCHANGED <<run, base_img, unique_img, files, written, printed, raisedAt,
                   completed, params, calls>>

\* os.makedirs raises (the directory cannot be created)
MakeDirsRaises ==
    /\ pc = "makedirs"
    /\ dirs # {BASE_OUTPUT, UNIQUE_OUTPUT}
    /\ pc' = "raised"
    /\ raisedAt' = <<0, "makedirs">>
    /\ UNCHANGED <<run, i, base_img, unique_img, dirs, files, written, printed,
                   completed, params, calls>>

\* the base image saved before the unique variant is rendered
DrawBaseThenSaveFirst ==
    /\ pc = "draw_base"
    /\ \E s \in 1..NStreams :
          base_img' = draw_creature(ParamsOf(i), FALSE, RandomStream(s)).img
    /\ pc' = "save_base"
    /\ UNCHANGED <<run, i, unique_img, dirs, files, written, printed, raisedAt,
                   completed, params, calls>>

\* base_img = draw_creature(params, unique=False)
DrawBase ==
    /\ pc = "draw_base"
    /\ \E s \in 1..NStreams :
          base_img' = draw_creature(ParamsOf(i), FALSE, RandomStream(s)).img
    /\ pc' = "draw_unique"
    /\ UNCHANGED <<run, i, unique_img, dirs, files, written, printed, raisedAt,
                   completed, params, calls>>

\* unique_img = draw_creature(params, unique=True)
DrawUnique ==
    /\ pc = "draw_unique"
    /\ \E s \in 1..NStreams :
          unique_img' = draw_creature(ParamsOf(i), TRUE, RandomStream(s)).img
    /\ pc' = "save_base"
    /\ UNCHANGED <<run, i, base_img, dirs, files, written, printed, raisedAt,
                   completed, params, calls>>

\* base_img.save(base_path): creates the file or overwrites it
SaveBase ==
    /\ pc = "save_base"
    /\ BASE_OUTPUT \in dirs
    /\ files' = files \cup {base_path(NameOf(i))}
    /\ written' = Append(written, base_path(NameOf(i)))
    /\ pc' = "save_unique"
    /\ UNCHANGED <<run, i, base_img, unique_img, dirs, printed, raisedAt,
                   completed, params, calls>>

\* unique_img.save(unique_path)
SaveUnique ==
    /\ pc = "save_unique"
    /\ UNIQUE_OUTPUT \in dirs
    /\ files' = files \cup {unique_path(NameOf(i))}
    /\ written' = Append(written, unique_path(NameOf(i)))
    /\ pc' = "print"
    /\ UNCHANGED <<run, i, base_img, unique_img, dirs, printed, raisedAt,
                   completed, params, calls>>

\* print(...), then the for loop takes the next entry or generate_all returns
\* and the process exits
PrintAndLoop ==
    /\ pc = "print"
    /\ printed' = Append(printed, NameOf(i))
    /\ IF i < Len(CREATURES)
       THEN /\ i' = i + 1
            /\ pc' = "draw_base"
            /\ UNCHANGED <<base_img, unique_img, completed>>
       ELSE /\ pc' = "done"
            /\ completed' = completed + 1
            /\ base_img' = None
            /\ unique_img' = None
            /\ UNCHANGED i
    /\ UNCHANGED <<run, dirs, files, written, raisedAt, params, calls>>

\* the failure swallowed and the loop body carried on
DrawRaisesCaught ==
    /\ pc \in {"draw_base", "draw_unique"}
    /\ raisedAt' = <<i, pc>>
    /\ pc' = IF pc = "draw_base" THEN "draw_unique" ELSE "save_base"
    /\ UNCHANGED <<run, i, base_img, unique_img, dirs, files, written, printed,
                   completed, params, calls>>

\* draw_creature raises: nothing catches it, the process ends
DrawRaises ==
    /\ pc \in {"draw_base", "draw_unique"}
    /\ raisedAt' = <<i, pc>>
    /\ pc' = "raised"
    /\ base_img' = None
    /\ unique_img' = None
    /\ UNCHANGED <<run, i, dirs, files, written, printed, completed, params, calls>>

\* Image.save raises: nothing catches it, the process ends.  The file it
\* was writing may have been created before the failure.
SaveRaises ==
    /\ pc \in {"save_base", "save_unique"}
    /\ LET path == IF pc = "save_base" THEN base_path(NameOf(i))
                   ELSE unique_path(NameOf(i))
       IN  files' \in {files, files \cup {path}}
    /\ raisedAt' = <<i, pc>>
    /\ pc' = "raised"
    /\ base_img' = None
    /\ unique_img' = None
    /\ UNCHANGED <<run, i, dirs, written, printed, completed, params, calls>>

\* the script is executed again
Rerun ==
    /\ pc \in {"done", "raised"}
    /\ run < MaxRuns
    /\ run' = run + 1
    /\ pc' = "makedirs"
    /\ i' = 0
    /\ written' = <<>>
    /\ printed' = <<>>
    /\ raisedAt' = None
    /\ UNCHANGED <<base_img, unique_img, dirs, files, completed, params, calls>>

Next ==
    \/ MakeDirs
    \/ MakeDirsRaises
    \/ DrawBase
    \/ DrawUnique
    \/ SaveBase
    \/ SaveUnique
    \/ PrintAndLoop
    \/ DrawRaises
    \/ SaveRaises
    \/ Rerun

Spec == Init /\ [][Next]_vars

(* ---------------------------------------------------------------------- *)
(* Calls of draw_creature on arbitrary parameter records                   *)
(* ---------------------------------------------------------------------- *)

Keys == {"color", "tail", "horns", "horns_color", "spines", "crest", "spots",
         "fins", "allow_crest_unique"}

\* every combination of the features, on one colour whose accents clamp at
\* both ends
FeatureRecords ==
    {[color |-> <<10, 250, 130>>, tail |-> t, horns |-> h, horns_color |-> hc,
      spines |-> n, crest |-> c, spots |-> s, fins |-> f, allow_crest_unique |-> a] :
        t \in {"normal", "leaf", "long", "fin", "zigzag"},
        h \in BOOLEAN, hc \in {None, <<189, 135, 70>>}, n \in 0..MaxSpines,
        c \in BOOLEAN, s \in BOOLEAN, f \in BOOLEAN, a \in BOOLEAN}

\* every channel value, with all accents drawn by one of the two variants
ColourRecords ==
    {[color |-> <<v, Min(255, v + 1), 255 - v>>, tail |-> "normal", horns |-> b,
      spines |-> 1, crest |-> b, spots |-> b, fins |-> b] :
        v \in 0..255, b \in BOOLEAN}

\* records that leave fields out
PartialRecords ==
    LET full == [color |-> <<76, 174, 79>>, tail |-> "leaf", horns |-> TRUE,
                 horns_color |-> <<255, 213, 96>>, spines |-> 4, crest |-> TRUE,
                 spots |-> TRUE, fins |-> TRUE, allow_crest_unique |-> FALSE]
    IN  {[k \in K |-> full[k]] : K \in SUBSET Keys}

Records == FeatureRecords \cup ColourRecords \cup PartialRecords
             \cup {ParamsOf(k) : k \in 1..Len(CREATURES)}

InitDraw ==
    /\ params \in Records
    /\ calls = <<>>
    /\ pc = "idle"
    /\ run = 0
    /\ i = 0
    /\ base_img = None
    /\ unique_img = None
    /\ dirs = {}
    /\ files = {}
    /\ written = <<>>
    /\ printed = <<>>
    /\ raisedAt = None
    /\ completed = 0

\* draw_creature(params, unique) is called, up to twice on a record
Call(unique, s) ==
    /\ Len(calls) < 2
    /\ calls' = Append(calls, draw_creature(params, unique, RandomStream(s)))
    /\ UNCHANGED <<params, driverVars>>

NextDraw == \E unique \in BOOLEAN, s \in 1..NStreams : Call(unique, s)

SpecDraw == InitDraw /\ [][NextDraw]_vars

(* ---------------------------------------------------------------------- *)
(* Properties of draw_creature (checked under SpecDraw)                    *)
(* ---------------------------------------------------------------------- *)

\* the positions in an image's calls that draw the given element
PartIndices(img, part) == {j \in DOMAIN img.ops : img.ops[j].part = part}

PartCount(img, part) == Cardinality(PartIndices(img, part))

\* the colour a call filled the body with
BodyColour(call) == call.img.ops[1].fill

\* the record's fields as the documentation gives their defaults
FieldOr(key, default) == IF key \in DOMAIN params THEN params[key] ELSE default

\* the features visible in the drawing a call returned
Drawn(call) ==
    [horns  |-> PartCount(call.img, "horn") > 0,
     spines |-> PartCount(call.img, "spine"),
     crest  |-> PartCount(call.img, "petal") > 0,
     spots  |-> PartCount(call.img, "spot") > 0,
     fins   |-> PartCount(call.img, "fin") > 0]

\* C1: on one record the features drawn by a unique=True call relate to those
\* drawn by a unique=False call: horns, spots and fins are inverted, spines
\* is (base.spines + 2) mod 5, and crest is inverted unless the record's
\* allow_crest_unique flag is false, in which case crest is unchanged (a
\* record without the flag behaves as if it were true).
C1_UniqueFeatureInversion ==
    \A a, b \in DOMAIN calls :
        (~calls[a].unique /\ calls[b].unique) =>
            LET base == Drawn(calls[a])
                uniq == Drawn(calls[b])
            IN  /\ uniq.horns = ~base.horns
                /\ uniq.spines = (base.spines + 2) % 5
                /\ uniq.spots = ~base.spots
                /\ uniq.fins = ~base.fins
                /\ uniq.crest = IF FieldOr("allow_crest_unique", TRUE) = FALSE
                                THEN base.crest ELSE ~base.crest
                /\ calls[a].locals.spines = base.spines
                /\ calls[b].locals.spines = uniq.spines

\* C1 witness: both variants of a record whose flag is false and whose crest
\* is set have been drawn, and both drawings carry the crest
C1_Witness ==
    /\ Len(calls) = 2
    /\ ~calls[1].unique /\ calls[2].unique
    /\ "allow_crest_unique" \in DOMAIN params /\ params["allow_crest_unique"] = FALSE
    /\ Drawn(calls[1]).crest /\ Drawn(calls[2]).crest
    /\ Drawn(calls[1]).spines = 4 /\ Drawn(calls[2]).spines = 1

\* C2 as claimed: every body colour channel of a unique=True call is
\* min(255, round(c*0.7 + 80)), and verdant_leaflon's unique body colour is
\* (133, 202, 135).
C2_RoundedUniqueColour ==
    \A a \in DOMAIN calls :
        calls[a].unique =>
            LET colour == FieldOr("color", <<120, 200, 120>>)
            IN  /\ \A k \in 1..3 :
                      BodyColour(calls[a])[k] = Min(255, (7 * colour[k] + 800 + 5) \div 10)
                /\ params = ParamsOf(1) => BodyColour(calls[a]) = <<133, 202, 135>>

\* C2 amended: every body colour channel of a unique=True call is c*0.7 + 80
\* with the fraction dropped (not rounded), capped at 255: it is 255 when
\* 7c + 800 >= 2550, and otherwise the u with 10u <= 7c + 800 < 10u + 10;
\* verdant_leaflon's unique body colour is (133, 201, 135).
C2_TruncatedUniqueColour ==
    \A a \in DOMAIN calls :
        calls[a].unique =>
            LET colour == FieldOr("color", <<120, 200, 120>>)
                u == BodyColour(calls[a])
            IN  /\ \A k \in 1..3 :
                      IF 7 * colour[k] + 800 >= 2550
                      THEN u[k] = 255
                      ELSE /\ 10 * u[k] <= 7 * colour[k] + 800
                           /\ 7 * colour[k] + 800 < 10 * u[k] + 10
                /\ params = ParamsOf(1) => u = <<133, 201, 135>>
                /\ \A j \in DOMAIN calls[a].img.ops :
                      calls[a].img.ops[j].part \in {"body", "head", "leg", "tail"}
                          => calls[a].img.ops[j].fill = u

\* C2 witness: the unique variant of verdant_leaflon has been drawn, with a
\* channel (174) whose value c*0.7 + 80 = 201.8 rounds up
C2_Witness ==
    /\ params = ParamsOf(1)
    /\ \E a \in DOMAIN calls : calls[a].unique /\ BodyColour(calls[a])[2] = 201

\* the smallest channel value for which c*0.7 + 80 reaches 255
ClampThreshold ==
    CHOOSE c \in 0..255 : /\ 7 * c + 800 >= 2550
                          /\ \A d \in 0..(c - 1) : 7 * d + 800 < 2550

\* C3: over channel values in 0..255 the unique body channel is monotonic
\* non-decreasing in the record's channel, never exceeds 255, and is 255 for
\* every channel at or above the clamp threshold.
C3_MonotoneSaturating ==
    \A a \in DOMAIN calls :
        calls[a].unique =>
            LET colour == FieldOr("color", <<120, 200, 120>>)
                u == BodyColour(calls[a])
            IN  \A j, k \in 1..3 :
                    /\ colour[j] <= colour[k] => u[j] <= u[k]
                    /\ u[j] <= 255
                    /\ colour[j] >= ClampThreshold => u[j] = 255

\* C3 witness: a unique call on a record with one channel just below the
\* threshold, one at it and one far below
C3_Witness ==
    \E a \in DOMAIN calls :
        /\ calls[a].unique
        /\ "color" \in DOMAIN params
        /\ params["color"][1] = ClampThreshold - 1
        /\ params["color"][2] = ClampThreshold
        /\ BodyColour(calls[a])[1] = 254
        /\ BodyColour(calls[a])[2] = 255
        /\ BodyColour(calls[a])[3] < 100

\* the place of an element in the back-to-front order
Layer(part) ==
    CASE part = "body"  -> 1
      [] part = "head"  -> 2
      [] part = "leg"   -> 3
      [] part \in {"tail", "vein"} -> 4
      [] part = "horn"  -> 5
      [] part = "spine" -> 6
      [] part = "petal" -> 7
      [] part = "spot"  -> 8
      [] part = "fin"   -> 9
      [] part = "eye"   -> 10

\* C4: every call draws in the order body, head, two legs, tail, horns,
\* spines, crest, spots, fins, eyes; body, head, two legs, exactly one tail
\* and the two eyes are always drawn, the eyes last; an optional element is
\* drawn exactly when the call's flag for it is set, and in its place.
C4_BackToFrontOrder ==
    \A a \in DOMAIN calls :
        LET img == calls[a].img
            ops == img.ops
            n   == Len(ops)
            l   == calls[a].locals
        IN  /\ \A j, k \in DOMAIN ops : j < k => Layer(ops[j].part) <= Layer(ops[k].part)
            /\ PartCount(img, "body") = 1 /\ ops[1].part = "body"
            /\ PartCount(img, "head") = 1 /\ ops[2].part = "head"
            /\ PartCount(img, "leg") = 2
            /\ PartCount(img, "tail") = 1 /\ ops[5].part = "tail"
            /\ PartCount(img, "eye") = 4
            /\ \A j \in (n - 3)..n : ops[j].part = "eye"
            /\ PartCount(img, "horn") = (IF l.horns THEN 2 ELSE 0)
            /\ PartCount(img, "spine") = l.spines
            /\ PartCount(img, "petal") = (IF l.crest THEN 6 ELSE 0)
            /\ PartCount(img, "spot") = (IF l.spots THEN 6 ELSE 0)
            /\ PartCount(img, "fin") = (IF l.fins THEN 3 ELSE 0)

\* C4 witness: a call that drew every optional element
C4_Witness ==
    \E a \in DOMAIN calls :
        /\ calls[a].unique
        /\ \A part \in {"vein", "horn", "spine", "petal", "spot", "fin"} :
              PartCount(calls[a].img, part) > 0

\* the centre of a spot circle
SpotCentre(op) == <<(op.xy[1] + op.xy[3]) \div 2, (op.xy[2] + op.xy[4]) \div 2>>

\* an image with the positions of its spot circles left out
WithoutSpotPositions(img) ==
    [j \in DOMAIN img.ops |->
        IF img.ops[j].part = "spot"
        THEN [img.ops[j] EXCEPT !.xy = <<>>]
        ELSE img.ops[j]]

\* C5: two calls on one record with the same variant flag return the same
\* drawing except for the positions of the six spot circles; when the
\* effective spots flag is false the drawings are identical and no random
\* number is drawn; every spot centre lies in x 30..70, y 50..85.
C5_SameExceptSpots ==
    \A a, b \in DOMAIN calls :
        calls[a].unique = calls[b].unique =>
            LET spots0 == FieldOr("spots", FALSE)
                effective == IF calls[a].unique THEN ~spots0 ELSE spots0
                img == calls[a].img
            IN  /\ WithoutSpotPositions(img) = WithoutSpotPositions(calls[b].img)
                /\ img.size = calls[b].img.size /\ img.mode = calls[b].img.mode
                /\ ~effective => /\ img = calls[b].img
                                 /\ calls[a].nrandom = 0
                                 /\ PartCount(img, "spot") = 0
                /\ effective => PartCount(img, "spot") = 6
                /\ \A j \in PartIndices(img, "spot") :
                      /\ SpotCentre(img.ops[j])[1] \in 30..70
                      /\ SpotCentre(img.ops[j])[2] \in 50..85
                      /\ img.ops[j].xy = <<SpotCentre(img.ops[j])[1] - 2,
                                           SpotCentre(img.ops[j])[2] - 2,
                                           SpotCentre(img.ops[j])[1] + 2,
                                           SpotCentre(img.ops[j])[2] + 2>>

\* C5 witness: two calls with the same flag whose drawings differ, with a
\* spot at the far corner of the box
C5_Witness ==
    /\ Len(calls) = 2
    /\ calls[1].unique = calls[2].unique
    /\ calls[1].img # calls[2].img
    /\ \E j \in PartIndices(calls[2].img, "spot") :
          SpotCentre(calls[2].img.ops[j]) = <<70, 85>>

\* C8: whatever the tail field is, a call draws exactly one tail polygon:
\* the four-point one for 'leaf', the three-point ones of 'long' and 'fin',
\* and the 'normal' one for everything else and for a missing field; a vein
\* line is drawn iff the tail is 'leaf' or 'fin'; both variants draw the
\* same tail shape.
C8_ExactlyOneTail ==
    \A a \in DOMAIN calls :
        LET img  == calls[a].img
            tail == FieldOr("tail", "normal")
            poly == img.ops[CHOOSE j \in PartIndices(img, "tail") : TRUE]
        IN  /\ PartCount(img, "tail") = 1
            /\ {img.ops[j].op : j \in PartIndices(img, "tail")} = {"polygon"}
            /\ poly.xy = CASE tail = "leaf" -> << <<20, 70>>, <<10, 50>>, <<20, 55>>, <<15, 65>> >>
                           [] tail = "long" -> << <<20, 75>>, <<5, 65>>, <<20, 55>> >>
                           [] tail = "fin"  -> << <<20, 70>>, <<5, 60>>, <<20, 50>> >>
                           [] OTHER         -> << <<20, 70>>, <<10, 65>>, <<20, 60>> >>
            /\ PartCount(img, "vein") = (IF tail \in {"leaf", "fin"} THEN 1 ELSE 0)
            /\ \A j \in PartIndices(img, "vein") : img.ops[j].op = "line"
            /\ Cardinality({j \in DOMAIN img.ops : img.ops[j].op = "line"})
                  = PartCount(img, "vein")
            /\ \A b \in DOMAIN calls :
                  {calls[b].img.ops[j].xy : j \in PartIndices(calls[b].img, "tail")}
                      = {poly.xy}

\* C8 witness: both variants of a record with an unknown tail value drawn
C8_Witness ==
    /\ Len(calls) = 2
    /\ calls[1].unique # calls[2].unique
    /\ "tail" \in DOMAIN params /\ params["tail"] = "zigzag"
    /\ PartCount(calls[2].img, "tail") = 1

\* C9: accents derive per channel from the body colour the call draws with:
\* spines max(0, c-30), spots max(0, c-40), fins min(255, c+60), horns the
\* record's horns_color when it has one and min(255, c+40) otherwise; every
\* channel stays in 0..255; the crest is (255,200,0) for base and
\* (255,0,200) for unique.
C9_AccentColours ==
    \A a \in DOMAIN calls :
        LET img  == calls[a].img
            body == BodyColour(calls[a])
            hc   == FieldOr("horns_color", None)
        IN  /\ body = IF calls[a].unique THEN calls[a].locals.colour
                      ELSE FieldOr("color", <<120, 200, 120>>)
            /\ \A j \in DOMAIN img.ops :
                  LET op == img.ops[j]
                  IN  /\ \A k \in 1..3 : op.fill[k] \in 0..255
                      /\ op.part = "spine" =>
                            \A k \in 1..3 : op.fill[k] = Max(0, body[k] - 30)
                      /\ op.part = "spot" =>
                            \A k \in 1..3 : op.fill[k] = Max(0, body[k] - 40)
                      /\ op.part = "fin" =>
                            \A k \in 1..3 : op.fill[k] = Min(255, body[k] + 60)
                      /\ op.part = "horn" =>
                            IF hc # None THEN op.fill = hc
                            ELSE \A k \in 1..3 : op.fill[k] = Min(255, body[k] + 40)
                      /\ op.part = "petal" =>
                            op.fill = IF calls[a].unique THEN <<255, 0, 200>>
                                      ELSE <<255, 200, 0>>

\* C9 witness: one record drawn in both variants, the base with explicit
\* horn colour, the unique one with spines, spots and fins whose accents
\* clamp at 255
C9_Witness ==
    /\ Len(calls) = 2
    /\ ~calls[1].unique /\ calls[2].unique
    /\ FieldOr("horns_color", None) # None
    /\ PartCount(calls[1].img, "horn") = 2
    /\ PartCount(calls[1].img, "petal") = 6
    /\ \A part \in {"spine", "spot", "fin", "petal"} : PartCount(calls[2].img, part) > 0
    /\ \E j \in PartIndices(calls[2].img, "fin") : calls[2].img.ops[j].fill[2] = 255

(* ---------------------------------------------------------------------- *)
(* Properties of generate_all (checked under Spec)                         *)
(* ---------------------------------------------------------------------- *)

NEntries == Len(CREATURES)

Names == {NameOf(k) : k \in 1..NEntries}

\* the file names the documentation gives, spelled out
ExpectedBase(k) == "./assets/creatures/base/" \o NameOf(k) \o "_base.png"

ExpectedUnique(k) == "./assets/creatures/unique/" \o NameOf(k) \o "_unique.png"

ExpectedFiles ==
    {ExpectedBase(k) : k \in 1..NEntries} \cup {ExpectedUnique(k) : k \in 1..NEntries}

\* base(1), unique(1), base(2), unique(2), ... in catalogue order
SaveOrder ==
    [j \in 1..(2 * NEntries) |->
        IF j % 2 = 1 THEN ExpectedBase((j + 1) \div 2) ELSE ExpectedUnique(j \div 2)]

IsPrefixOfSaveOrder(s) ==
    /\ Len(s) <= Len(SaveOrder)
    /\ \A j \in DOMAIN s : s[j] = SaveOrder[j]

\* the drawings draw_creature can return for entry k
Renderings(k, unique) ==
    {draw_creature(ParamsOf(k), unique, RandomStream(s)).img : s \in 1..NStreams}

\* C6: a complete run writes exactly 100 distinct files, <name>_base.png in
\* the base directory and <name>_unique.png in the unique directory for each
\* of the 50 distinct names, and after any complete run, the first or a
\* later one, exactly these 100 files exist.
C6_HundredFilesIdempotent ==
    pc = "done" =>
        /\ NEntries = 50
        /\ Cardinality(Names) = 50
        /\ Len(written) = 100
        /\ Cardinality(Range(written)) = 100
        /\ Range(written) = ExpectedFiles
        /\ files = ExpectedFiles
        /\ Cardinality(files) = 100
        /\ Len(printed) = 50

\* C6 witness: a second complete run has ended
C6_Witness ==
    /\ pc = "done"
    /\ run = 2
    /\ completed = 2
    /\ Len(written) = 100

\* C7: a failure of rendering or saving on entry k is not caught: the run
\* has ended, nothing of an entry after k was written in the run, the files
\* of the entries before k are as written, and after a rendering failure
\* neither file of entry k was written.
C7_FailureAborts ==
    (raisedAt # None /\ raisedAt[2] # "makedirs") =>
        LET k    == raisedAt[1]
            step == raisedAt[2]
        IN  /\ pc = "raised"
            /\ i = k
            /\ \A j \in (k + 1)..NEntries :
                  /\ ExpectedBase(j) \notin Range(written)
                  /\ ExpectedUnique(j) \notin Range(written)
                  /\ run = 1 => (ExpectedBase(j) \notin files /\ ExpectedUnique(j) \notin files)
            /\ \A j \in 1..(k - 1) :
                  /\ ExpectedBase(j) \in Range(written) /\ ExpectedBase(j) \in files
                  /\ ExpectedUnique(j) \in Range(written) /\ ExpectedUnique(j) \in files
            /\ Len(written) = 2 * (k - 1) + (IF step = "save_unique" THEN 1 ELSE 0)
            /\ Len(printed) = k - 1
            /\ step \in {"draw_base", "draw_unique"} =>
                  /\ ExpectedBase(k) \notin Range(written)
                  /\ ExpectedUnique(k) \notin Range(written)
                  /\ run = 1 => (ExpectedBase(k) \notin files /\ ExpectedUnique(k) \notin files)

\* C7 witness: rendering the unique variant of an entry in the middle of the
\* catalogue failed in a second run, after a first run that completed
C7_Witness ==
    /\ raisedAt = <<25, "draw_unique">>
    /\ run = 2
    /\ completed = 1
    /\ pc = "raised"

\* C10: in a run that starts with empty directories the files that exist
\* are a prefix of base(1), unique(1), base(2), unique(2), ...; in every run
\* the files saved so far are such a prefix; and when a file of an entry is
\* about to be saved both variants of that entry have been rendered.
C10_PrefixOrder ==
    /\ IsPrefixOfSaveOrder(written)
    /\ run = 1 =>
          /\ \E n \in 0..(2 * NEntries) : files = {SaveOrder[j] : j \in 1..n}
          /\ \A k \in 1..NEntries : ExpectedUnique(k) \in files => ExpectedBase(k) \in files
          /\ \A k \in 1..(NEntries - 1) :
                (ExpectedBase(k + 1) \in files \/ ExpectedUnique(k + 1) \in files)
                    => (ExpectedBase(k) \in files /\ ExpectedUnique(k) \in files)
    /\ pc \in {"save_base", "save_unique"} =>
          /\ base_img \in Renderings(i, FALSE)
          /\ unique_img \in Renderings(i, TRUE)
          /\ ExpectedUnique(i) \notin Range(written)
    /\ pc = "save_base" => ExpectedBase(i) \notin Range(written)
    /\ (i >= 1 /\ ExpectedBase(i) \in Range(written))
          => pc \in {"save_unique", "print", "done", "raised"}

\* C10 witness: in the first run the base file of an entry in the middle of
\* the catalogue exists and its unique file does not yet
C10_Witness ==
    /\ run = 1
    /\ pc = "save_unique"
    /\ i = 25
    /\ ExpectedBase(25) \in files
    /\ ExpectedUnique(25) \notin files
    /\ Len(written) = 49

====
